---- MODULE Spec2Model ----
(***************************************************************************)
(* RoadFreight (src/src/lib.rs): a Soroban contract that keeps freight     *)
(* agreements in instance storage and moves each one through               *)
(* Draft -> Active -> InTransit -> Delivered -> Settled.                   *)
(*                                                                         *)
(* One action per entry point.  An invocation is one transaction of the    *)
(* host: it runs from its first statement to its return without any other  *)
(* invocation in between, so each entry point is one atomic step.          *)
(*                                                                         *)
(* X.require_auth() is the host's check that address X authorised this     *)
(* invocation.  When it fails the host traps and discards the invocation   *)
(* before anything was read or written: that is a stuttering step.  The    *)
(* address parameter of every action therefore ranges over the addresses   *)
(* that did authorise the call.                                            *)
(*                                                                         *)
(* TLC's integers are 32 bits wide, so u32, u64 and i128 are modelled by   *)
(* ranges of the same shape on a smaller scale: 0..U32_MAX, 0..U64_MAX     *)
(* with U64_MAX > U32_MAX, and the asymmetric I128_MIN..I128_MAX.          *)
(***************************************************************************)
EXTENDS Integers, Sequences, FiniteSets, TLC

VARIABLES
    store,    \* instance storage, DataKey::Contract(id) -> FreightContract
    nextId,   \* instance storage, DataKey::NextId (0 while the key is absent)
    now,      \* e.ledger().timestamp()
    events,   \* the events published by the latest invocation, in order
    last,     \* the latest invocation: entry point, id, and what it returned
    issued    \* history: the ids create_contract has returned, oldest first

vars == <<store, nextId, now, events, last, issued>>

----------------------------------------------------------------------------
(* Bounds of the model *)

MaxContracts == 2      \* SpecLedger: create_contract is called at most this many times
MaxTime == 1           \* Spec: the ledger timestamp runs over 0..MaxTime
U32_MAX == 1           \* stands for u32::MAX
I128_MAX == 1          \* stands for i128::MAX

U64_MAX == U32_MAX + 1         \* stands for u64::MAX; u64 is wider than u32
I128_MIN == (0 - I128_MAX) - 1 \* stands for i128::MIN

U32 == 0..U32_MAX
U64 == 0..U64_MAX
I128 == I128_MIN..I128_MAX

Addresses == {"S", "C", "X"}
Hashes == {"h0", "h1"}         \* BytesN<32>
Strings == {"Hanoi", "Hue"}
Times == 0..MaxTime
AllIds == 1..(MaxContracts + 1)

(* The arguments the entry points are called with.  Spec follows one       *)
(* contract under every combination of the arguments below; SpecLedger     *)
(* follows MaxContracts contracts side by side, each under one fixed set   *)
(* of arguments, with the ledger timestamp standing still.                 *)
Prices == {I128_MIN, 0 - 1, 1, I128_MAX}
Costs == {I128_MIN, 0 - 1, 0, 1, I128_MAX}
Deadlines == {MaxTime - 1}
Oracles == {"C", "X"}          \* the addresses log_telemetry is called by
Telemetry ==                                 \* <<add_secs, add_km, add_cost>>
    (U32 \X {0} \X {0}) \cup ({0} \X U32 \X {0}) \cup ({0} \X {0} \X Costs)
        \cup {<<U32_MAX, U32_MAX, I128_MAX>>, <<1, 1, 0 - 1>>}
Creates == {<<"S", c, "Hanoi", "Hue", "T", p, d, "h0">> : c \in {"C", "S"}, p \in Prices, d \in Deadlines}
SpecIds == {1}

LedgerTelemetry == {<<1, 1, 1>>}
LedgerCreates == {<<"S", "C", "Hanoi", "Hue", "T", 1, 0, "h0">>}
LedgerPods == {"h1"}
LedgerIds == 1..MaxContracts

----------------------------------------------------------------------------
(* Types *)

Status == {"Draft", "Active", "InTransit", "Delivered", "Settled"}

Error == {"Unauthorized", "NotFound", "BadState", "EscrowNotFunded", "AlreadySettled"}

FreightContract ==
    [id : AllIds, shipper : Addresses, carrier : Addresses, origin : Strings,
     destination : Strings, token : Addresses \cup {"T"}, price : I128, deadline_unix : Times,
     doc_hash : Hashes, status : Status, created_at : Times,
     escrow_funded : BOOLEAN, total_secs : U64, total_km : U32,
     computed_cost : I128, last_paid : I128]

----------------------------------------------------------------------------
(* Storage accessors *)

\* get(&e, &DataKey::Contract(id)) is Some(..) exactly when the key is stored
has(s, id) == id \in DOMAIN s

\* a put that ignores the id in the key and writes every contract entry
put_any_key(s, id, fc) == [k \in (DOMAIN s) \cup {id} |-> fc]

\* put(&e, &DataKey::Contract(id), &fc)
put(s, id, fc) == [k \in (DOMAIN s) \cup {id} |-> IF k = id THEN fc ELSE s[k]]

----------------------------------------------------------------------------
(* Arithmetic *)

saturating_add_u64(a, b) == IF a + b > U64_MAX THEN U64_MAX ELSE a + b

\* u32 addition that wraps around instead of clamping
wrapping_add_u32(a, b) == (a + b) % (U32_MAX + 1)

saturating_add_u32(a, b) == IF a + b > U32_MAX THEN U32_MAX ELSE a + b

saturating_add_i128(a, b) ==
    IF a + b > I128_MAX THEN I128_MAX
    ELSE IF a + b < I128_MIN THEN I128_MIN
    ELSE a + b

\* a halving that rounds toward minus infinity
half_floor(p) == p \div 2

\* fc.price / 2 on i128: the quotient is truncated toward zero
half(p) == IF p >= 0 THEN p \div 2 ELSE 0 - ((0 - p) \div 2)

\* let pay = if now <= fc.deadline_unix { fc.price } else { fc.price / 2 };
payout(t, fc) == IF t <= fc.deadline_unix THEN fc.price ELSE half(fc.price)

----------------------------------------------------------------------------
(* What an invocation returns *)

Ok(op, id, v) == [op |-> op, id |-> id, err |-> "None", val |-> v]
Err(op, id, e) == [op |-> op, id |-> id, err |-> e, val |-> 0]

\* an entry point that returns Err(..) before it has written or published
Fail(op, id, e) ==
    /\ last' = Err(op, id, e)
    /\ events' = <<>>
    /\ UNCHANGED <<store, nextId, now, issued>>

Event(topic, data) == [topic |-> topic, data |-> data]

----------------------------------------------------------------------------
Init ==
    /\ store = <<>>
    /\ nextId = 0
    /\ now = 0
    /\ events = <<>>
    /\ last = Ok("deploy", 0, 0)
    /\ issued = <<>>

\* the ledger closes and the timestamp moves on
Tick ==
    /\ now < MaxTime
    /\ now' = now + 1
    /\ UNCHANGED <<store, nextId, events, last, issued>>

\* a next_id that hands out the stored counter without counting up
next_id_stale == IF nextId = 0 THEN 1 ELSE nextId

\* next_id: the stored counter (0 when absent) plus one; create_contract
\* stores it back under DataKey::NextId before the record is written
next_id == nextId + 1

create_contract(shipper, carrier, origin, destination, token, price, deadline_unix, doc_hash) ==
    LET id == next_id
        fc == [id |-> id, shipper |-> shipper, carrier |-> carrier,
               origin |-> origin, destination |-> destination, token |-> token,
               price |-> price, deadline_unix |-> deadline_unix,
               doc_hash |-> doc_hash, status |-> "Draft", created_at |-> now,
               escrow_funded |-> FALSE, total_secs |-> 0, total_km |-> 0,
               computed_cost |-> 0, last_paid |-> 0]
    IN  /\ nextId' = id
        /\ store' = put(store, id, fc)
        /\ events' = <<Event("CREATED", <<id>>)>>
        /\ last' = Ok("create_contract", id, id)
        /\ issued' = Append(issued, id)
        /\ UNCHANGED now

\* an accept that forgets the status check
accept_any_state(id, carrier) ==
    IF ~has(store, id) THEN Fail("accept", id, "NotFound")
    ELSE IF store[id].carrier # carrier THEN Fail("accept", id, "Unauthorized")
    ELSE /\ store' = put(store, id, [store[id] EXCEPT !.status = "Active"])
         /\ events' = <<Event("ACCEPTED", <<id>>)>>
         /\ last' = Ok("accept", id, 0)
         /\ UNCHANGED <<nextId, now, issued>>

\* an accept that checks the status before it checks the caller
accept_state_first(id, carrier) ==
    IF ~has(store, id) THEN Fail("accept", id, "NotFound")
    ELSE IF store[id].status # "Draft" THEN Fail("accept", id, "BadState")
    ELSE IF store[id].carrier # carrier THEN Fail("accept", id, "Unauthorized")
    ELSE /\ store' = put(store, id, [store[id] EXCEPT !.status = "Active"])
         /\ events' = <<Event("ACCEPTED", <<id>>)>>
         /\ last' = Ok("accept", id, 0)
         /\ UNCHANGED <<nextId, now, issued>>

accept(id, carrier) ==
    IF ~has(store, id) THEN Fail("accept", id, "NotFound")
    ELSE IF store[id].carrier # carrier THEN Fail("accept", id, "Unauthorized")
    ELSE IF store[id].status # "Draft" THEN Fail("accept", id, "BadState")
    ELSE /\ store' = put(store, id, [store[id] EXCEPT !.status = "Active"])
         /\ events' = <<Event("ACCEPTED", <<id>>)>>
         /\ last' = Ok("accept", id, 0)
         /\ UNCHANGED <<nextId, now, issued>>

\* a mark_funded that forgets the status check
mark_funded_any_state(id, shipper) ==
    IF ~has(store, id) THEN Fail("mark_funded", id, "NotFound")
    ELSE IF store[id].shipper # shipper THEN Fail("mark_funded", id, "Unauthorized")
    ELSE /\ store' = put(store, id, [store[id] EXCEPT !.escrow_funded = TRUE])
         /\ events' = <<Event("FUNDED", <<id>>)>>
         /\ last' = Ok("mark_funded", id, 0)
         /\ UNCHANGED <<nextId, now, issued>>

\* a mark_funded that forgets to publish
mark_funded_no_event(id, shipper) ==
    IF ~has(store, id) THEN Fail("mark_funded", id, "NotFound")
    ELSE IF store[id].shipper # shipper THEN Fail("mark_funded", id, "Unauthorized")
    ELSE IF store[id].status # "Active" THEN Fail("mark_funded", id, "BadState")
    ELSE /\ store' = put(store, id, [store[id] EXCEPT !.escrow_funded = TRUE])
         /\ events' = <<>>
         /\ last' = Ok("mark_funded", id, 0)
         /\ UNCHANGED <<nextId, now, issued>>

mark_funded(id, shipper) ==
    IF ~has(store, id) THEN Fail("mark_funded", id, "NotFound")
    ELSE IF store[id].shipper # shipper THEN Fail("mark_funded", id, "Unauthorized")
    ELSE IF store[id].status # "Active" THEN Fail("mark_funded", id, "BadState")
    ELSE /\ store' = put(store, id, [store[id] EXCEPT !.escrow_funded = TRUE])
         /\ events' = <<Event("FUNDED", <<id>>)>>
         /\ last' = Ok("mark_funded", id, 0)
         /\ UNCHANGED <<nextId, now, issued>>

\* a start_trip that checks the escrow before it checks the status
start_trip_escrow_first(id, caller) ==
    IF ~has(store, id) THEN Fail("start_trip", id, "NotFound")
    ELSE IF ~(caller = store[id].shipper \/ caller = store[id].carrier)
        THEN Fail("start_trip", id, "Unauthorized")
    ELSE IF ~store[id].escrow_funded THEN Fail("start_trip", id, "EscrowNotFunded")
    ELSE IF store[id].status # "Active" THEN Fail("start_trip", id, "BadState")
    ELSE /\ store' = put(store, id, [store[id] EXCEPT !.status = "InTransit"])
         /\ events' = <<Event("STARTED", <<id>>)>>
         /\ last' = Ok("start_trip", id, 0)
         /\ UNCHANGED <<nextId, now, issued>>

\* a start_trip that forgets the escrow check
start_trip_no_gate(id, caller) ==
    IF ~has(store, id) THEN Fail("start_trip", id, "NotFound")
    ELSE IF ~(caller = store[id].shipper \/ caller = store[id].carrier)
        THEN Fail("start_trip", id, "Unauthorized")
    ELSE IF store[id].status # "Active" THEN Fail("start_trip", id, "BadState")
    ELSE /\ store' = put(store, id, [store[id] EXCEPT !.status = "InTransit"])
         /\ events' = <<Event("STARTED", <<id>>)>>
         /\ last' = Ok("start_trip", id, 0)
         /\ UNCHANGED <<nextId, now, issued>>

\* a start_trip that stores the new status before it checks the escrow
start_trip_write_first(id, caller) ==
    IF ~has(store, id) THEN Fail("start_trip", id, "NotFound")
    ELSE IF ~(caller = store[id].shipper \/ caller = store[id].carrier)
        THEN Fail("start_trip", id, "Unauthorized")
    ELSE IF store[id].status # "Active" THEN Fail("start_trip", id, "BadState")
    ELSE /\ store' = put(store, id, [store[id] EXCEPT !.status = "InTransit"])
         /\ UNCHANGED <<nextId, now, issued>>
         /\ IF ~store[id].escrow_funded
            THEN /\ events' = <<>>
                 /\ last' = Err("start_trip", id, "EscrowNotFunded")
            ELSE /\ events' = <<Event("STARTED", <<id>>)>>
                 /\ last' = Ok("start_trip", id, 0)

start_trip(id, caller) ==
    IF ~has(store, id) THEN Fail("start_trip", id, "NotFound")
    ELSE IF ~(caller = store[id].shipper \/ caller = store[id].carrier)
        THEN Fail("start_trip", id, "Unauthorized")
    ELSE IF store[id].status # "Active" THEN Fail("start_trip", id, "BadState")
    ELSE IF ~store[id].escrow_funded THEN Fail("start_trip", id, "EscrowNotFunded")
    ELSE /\ store' = put(store, id, [store[id] EXCEPT !.status = "InTransit"])
         /\ events' = <<Event("STARTED", <<id>>)>>
         /\ last' = Ok("start_trip", id, 0)
         /\ UNCHANGED <<nextId, now, issued>>

\* a log_telemetry that forgets the status check
log_telemetry_any_state(id, add_secs, add_km, add_cost, oracle) ==
    IF ~has(store, id) THEN Fail("log_telemetry", id, "NotFound")
    ELSE LET fc == store[id] IN
         /\ store' = put(store, id,
                [fc EXCEPT
                    !.total_secs = saturating_add_u64(fc.total_secs, add_secs),
                    !.total_km = saturating_add_u32(fc.total_km, add_km),
                    !.computed_cost = saturating_add_i128(fc.computed_cost, add_cost)])
         /\ events' = <<Event("TEL", <<id, add_secs, add_km>>)>>
         /\ last' = Ok("log_telemetry", id, 0)
         /\ UNCHANGED <<nextId, now, issued>>

log_telemetry(id, add_secs, add_km, add_cost, oracle) ==
    IF ~has(store, id) THEN Fail("log_telemetry", id, "NotFound")
    ELSE IF store[id].status # "InTransit" THEN Fail("log_telemetry", id, "BadState")
    ELSE LET fc == store[id] IN
         /\ store' = put(store, id,
                [fc EXCEPT
                    !.total_secs = saturating_add_u64(fc.total_secs, add_secs),
                    !.total_km = saturating_add_u32(fc.total_km, add_km),
                    !.computed_cost = saturating_add_i128(fc.computed_cost, add_cost)])
         /\ events' = <<Event("TEL", <<id, add_secs, add_km>>)>>
         /\ last' = Ok("log_telemetry", id, 0)
         /\ UNCHANGED <<nextId, now, issued>>

\* a submit_pod that forgets to store the digest
submit_pod_keeps_doc(id, pod_hash, caller) ==
    IF ~has(store, id) THEN Fail("submit_pod", id, "NotFound")
    ELSE IF ~(caller = store[id].shipper \/ caller = store[id].carrier)
        THEN Fail("submit_pod", id, "Unauthorized")
    ELSE IF store[id].status # "InTransit" THEN Fail("submit_pod", id, "BadState")
    ELSE /\ store' = put(store, id, [store[id] EXCEPT !.status = "Delivered"])
         /\ events' = <<Event("DELIVERED", <<id>>)>>
         /\ last' = Ok("submit_pod", id, 0)
         /\ UNCHANGED <<nextId, now, issued>>

submit_pod(id, pod_hash, caller) ==
    IF ~has(store, id) THEN Fail("submit_pod", id, "NotFound")
    ELSE IF ~(caller = store[id].shipper \/ caller = store[id].carrier)
        THEN Fail("submit_pod", id, "Unauthorized")
    ELSE IF store[id].status # "InTransit" THEN Fail("submit_pod", id, "BadState")
    ELSE /\ store' = put(store, id,
                [store[id] EXCEPT !.doc_hash = pod_hash, !.status = "Delivered"])
         /\ events' = <<Event("DELIVERED", <<id>>)>>
         /\ last' = Ok("submit_pod", id, 0)
         /\ UNCHANGED <<nextId, now, issued>>

\* an evaluate_and_settle that also takes a record that is already Settled
evaluate_and_settle_again(id, invoker) ==
    IF ~has(store, id) THEN Fail("evaluate_and_settle", id, "NotFound")
    ELSE IF store[id].status \notin {"Delivered", "Settled"}
        THEN Fail("evaluate_and_settle", id, "BadState")
    ELSE IF ~store[id].escrow_funded THEN Fail("evaluate_and_settle", id, "EscrowNotFunded")
    ELSE LET pay == payout(now, store[id]) IN
         /\ store' = put(store, id,
                [store[id] EXCEPT !.status = "Settled", !.last_paid = pay])
         /\ events' = <<Event("SETTLED", <<id, pay>>)>>
         /\ last' = Ok("evaluate_and_settle", id, pay)
         /\ UNCHANGED <<nextId, now, issued>>

evaluate_and_settle(id, invoker) ==
    IF ~has(store, id) THEN Fail("evaluate_and_settle", id, "NotFound")
    ELSE IF store[id].status # "Delivered" THEN Fail("evaluate_and_settle", id, "BadState")
    ELSE IF ~store[id].escrow_funded THEN Fail("evaluate_and_settle", id, "EscrowNotFunded")
    ELSE LET pay == payout(now, store[id]) IN
         /\ store' = put(store, id,
                [store[id] EXCEPT !.status = "Settled", !.last_paid = pay])
         /\ events' = <<Event("SETTLED", <<id, pay>>)>>
         /\ last' = Ok("evaluate_and_settle", id, pay)
         /\ UNCHANGED <<nextId, now, issued>>

\* returns the stored record itself; nothing is written or published
get_contract(id) ==
    IF ~has(store, id) THEN Fail("get_contract", id, "NotFound")
    ELSE /\ last' = Ok("get_contract", id, 0)
         /\ events' = <<>>
         /\ UNCHANGED <<store, nextId, now, issued>>

\* the calls on stored contracts, with ids from I, telemetry from T, digests from H
Calls(I, T, H) ==
    \/ \E id \in I, a \in Addresses : accept(id, a)
    \/ \E id \in I, a \in Addresses : mark_funded(id, a)
    \/ \E id \in I, a \in Addresses : start_trip(id, a)
    \/ \E id \in I, t \in T, a \in Oracles : log_telemetry(id, t[1], t[2], t[3], a)
    \/ \E id \in I, h \in H, a \in Addresses : submit_pod(id, h, a)
    \/ \E id \in I, a \in Addresses : evaluate_and_settle(id, a)
    \/ \E id \in I : get_contract(id)

Create(C) ==
    \E c \in C : create_contract(c[1], c[2], c[3], c[4], c[5], c[6], c[7], c[8])

Next ==
    \/ Tick
    \/ nextId = 0 /\ Create(Creates)
    \/ Calls(SpecIds, Telemetry, Hashes)

Spec == Init /\ [][Next]_vars

NextLedger ==
    \/ nextId < MaxContracts /\ Create(LedgerCreates)
    \/ Calls(LedgerIds, LedgerTelemetry, LedgerPods)

SpecLedger == Init /\ [][NextLedger]_vars

----------------------------------------------------------------------------
(* Properties *)

TypeOK ==
    /\ DOMAIN store \subseteq AllIds
    /\ \A id \in DOMAIN store : store[id] \in FreightContract
    /\ nextId \in 0..MaxContracts
    /\ now \in Times
    /\ last.err \in Error \cup {"None"}

\* the place of a status in Draft, Active, InTransit, Delivered, Settled
StatusOrd(st) ==
    CASE st = "Draft" -> 0 [] st = "Active" -> 1 [] st = "InTransit" -> 2
      [] st = "Delivered" -> 3 [] st = "Settled" -> 4

\* the latest invocation was entry point op, on id, and returned Ok
Succeeded(op, id) == last.op = op /\ last.id = id /\ last.err = "None"

\* the step's call was entry point op on id (every entry point records both in
\* last, so this conjunct of a step formula only spares evaluating the others)
On(op, id) == last'.op = op /\ last'.id = id

\* the step returned Err(e) from entry point op and changed nothing stored
Refused(op, id, e) ==
    /\ last' = Err(op, id, e)
    /\ store' = store
    /\ nextId' = nextId
    /\ events' = <<>>

(* C1. Forward-only status: in every step every stored record keeps its    *)
(* status or moves to the next one of Draft, Active, InTransit, Delivered, *)
(* Settled; no record disappears; a record that appears is a Draft.        *)
C1_ForwardOnlyStatus ==
    [][ /\ \A id \in DOMAIN store :
              /\ id \in DOMAIN store'
              /\ \/ store'[id].status = store[id].status
                 \/ StatusOrd(store'[id].status) = StatusOrd(store[id].status) + 1
        /\ \A id \in (DOMAIN store') \ (DOMAIN store) : store'[id].status = "Draft"
      ]_vars

\* a record has gone through all five statuses and a further call was refused
C1_Witness ==
    \E id \in DOMAIN store :
        /\ store[id].status = "Settled"
        /\ last.id = id /\ last.op = "accept" /\ last.err = "BadState"

IsStrictlyIncreasing(q) == \A i \in 1..Len(q), j \in 1..Len(q) : i < j => q[i] < q[j]

(* C2. Monotonic ids: the ids create_contract has returned are strictly    *)
(* increasing; only a successful create_contract changes NextId, and it    *)
(* returns the new NextId; every record is stored under its own id, which  *)
(* is one of the ids returned, so no id belongs to two records.            *)
C2_MonotonicIds ==
    [][ /\ IsStrictlyIncreasing(issued')
        /\ DOMAIN store' = {issued'[i] : i \in 1..Len(issued')}
        /\ \A id \in DOMAIN store' : store'[id].id = id
        /\ Cardinality(DOMAIN store') = Len(issued')
        /\ nextId' # nextId =>
              /\ last' = Ok("create_contract", nextId', nextId')
              /\ issued' = Append(issued, nextId')
              /\ nextId' > nextId
        /\ issued' # issued => nextId' # nextId
      ]_vars

\* two contracts were created, with failing and succeeding calls in between
C2_Witness ==
    /\ Len(issued) >= 2
    /\ Succeeded("create_contract", issued[Len(issued)])
    /\ store[issued[1]].status = "Active"

(* C3. Authorization gating: on a stored record, whatever its status, a   *)
(* step that is accept by an address other than the record's carrier,      *)
(* mark_funded by an address other than its shipper, or start_trip or      *)
(* submit_pod by an address that is neither, returns Unauthorized and      *)
(* leaves every stored record, NextId and the event list as they were.     *)
C3_AuthorizationGating ==
    [][ \A id \in DOMAIN store, a \in Addresses :
          /\ (On("accept", id) /\ a # store[id].carrier /\ accept(id, a))
                => Refused("accept", id, "Unauthorized")
          /\ (On("mark_funded", id) /\ a # store[id].shipper /\ mark_funded(id, a))
                => Refused("mark_funded", id, "Unauthorized")
          /\ ( /\ On("start_trip", id)
               /\ a \notin {store[id].shipper, store[id].carrier}
               /\ start_trip(id, a) )
                => Refused("start_trip", id, "Unauthorized")
          /\ \A h \in Hashes :
                ( /\ On("submit_pod", id)
                  /\ a \notin {store[id].shipper, store[id].carrier}
                  /\ submit_pod(id, h, a) )
                => Refused("submit_pod", id, "Unauthorized")
      ]_vars

\* accept by a stranger was refused on a record that is far from Draft
C3_Witness ==
    \E id \in DOMAIN store :
        /\ last = Err("accept", id, "Unauthorized")
        /\ store[id].status = "Delivered"

(* C4. Funding gate: start_trip by the shipper or the carrier on an Active *)
(* record returns EscrowNotFunded and leaves the record as it was while    *)
(* escrow_funded is false; a successful mark_funded leaves the record      *)
(* Active with escrow_funded true; and on an Active record with            *)
(* escrow_funded true the same start_trip returns Ok and the record is     *)
(* InTransit.                                                              *)
C4_FundingGate ==
    [][ \A id \in DOMAIN store, a \in Addresses :
          /\ ( /\ On("start_trip", id)
               /\ a \in {store[id].shipper, store[id].carrier}
               /\ store[id].status = "Active"
               /\ start_trip(id, a) )
                => IF store[id].escrow_funded
                   THEN /\ last' = Ok("start_trip", id, 0)
                        /\ store'[id].status = "InTransit"
                   ELSE /\ Refused("start_trip", id, "EscrowNotFunded")
                        /\ store'[id].status = "Active"
          /\ (On("mark_funded", id) /\ last'.err = "None" /\ mark_funded(id, a))
                => /\ a = store[id].shipper
                   /\ store'[id].status = "Active"
                   /\ store'[id].escrow_funded
      ]_vars

\* start_trip went through on a funded record
C4_Witness ==
    \E id \in DOMAIN store :
        /\ Succeeded("start_trip", id)
        /\ store[id].status = "InTransit"
        /\ store[id].escrow_funded

\* p / 2 truncated toward zero, said without division: the q nearest to
\* zero with p - 2q in {-1, 0, 1} and of p's sign
TruncatedHalf(p) ==
    CHOOSE q \in I128 :
        /\ (p >= 0 => q >= 0 /\ 2 * q <= p /\ p - 2 * q <= 1)
        /\ (p < 0 => q <= 0 /\ 2 * q >= p /\ 2 * q - p <= 1)

(* C5. Settlement arithmetic: an evaluate_and_settle that returns Ok on a  *)
(* Delivered record returns price when the ledger timestamp of the call is *)
(* at most deadline_unix and otherwise price / 2 truncated toward zero;    *)
(* that amount is stored as last_paid and the record is Settled.           *)
C5_SettlementArithmetic ==
    [][ \A id \in DOMAIN store, a \in Addresses :
          ( /\ On("evaluate_and_settle", id)
            /\ last'.err = "None"
            /\ store[id].status = "Delivered"
            /\ evaluate_and_settle(id, a) )
          => LET pay == IF now <= store[id].deadline_unix
                        THEN store[id].price
                        ELSE TruncatedHalf(store[id].price)
             IN  /\ last' = Ok("evaluate_and_settle", id, pay)
                 /\ store'[id].last_paid = pay
                 /\ store'[id].status = "Settled"
      ]_vars

\* a late settlement of an odd negative price
C5_Witness ==
    \E id \in DOMAIN store :
        /\ Succeeded("evaluate_and_settle", id)
        /\ now > store[id].deadline_unix
        /\ store[id].price < 0
        /\ store[id].price % 2 = 1
        /\ store[id].last_paid = last.val

(* C6. Failure atomicity: a step whose call returns an error leaves every  *)
(* stored record and NextId as they were and publishes no event.           *)
C6_FailureAtomicity ==
    [][ last'.err # "None" =>
          /\ store' = store
          /\ nextId' = nextId
          /\ events' = <<>>
      ]_vars

\* a start_trip on an Active, unfunded record returned an error
C6_Witness ==
    \E id \in DOMAIN store :
        /\ last = Err("start_trip", id, "EscrowNotFunded")
        /\ store[id].status = "Active"

(* C7. One event per successful mutating call: a step that is a successful *)
(* create_contract, accept, mark_funded, start_trip, log_telemetry,        *)
(* submit_pod or evaluate_and_settle publishes exactly one event, with     *)
(* topic CREATED, ACCEPTED, FUNDED, STARTED, TEL, DELIVERED or SETTLED and *)
(* payload id, (id, add_secs, add_km) for TEL, (id, pay) for SETTLED, in   *)
(* the step that writes the record; get_contract publishes none.           *)
C7_OneEventPerCall ==
    [][ LET id == last'.id
            ok == last'.err = "None"
        IN
        /\ last'.op = "create_contract" =>
              \A c \in Creates \cup LedgerCreates :
                  create_contract(c[1], c[2], c[3], c[4], c[5], c[6], c[7], c[8])
                  => /\ events' = <<Event("CREATED", <<last'.val>>)>>
                     /\ last'.val \in (DOMAIN store') \ (DOMAIN store)
        /\ (last'.op = "accept" /\ ok) =>
              \A a \in Addresses :
                  accept(id, a) => events' = <<Event("ACCEPTED", <<id>>)>>
        /\ (last'.op = "mark_funded" /\ ok) =>
              \A a \in Addresses :
                  mark_funded(id, a) => events' = <<Event("FUNDED", <<id>>)>>
        /\ (last'.op = "start_trip" /\ ok) =>
              \A a \in Addresses :
                  start_trip(id, a) => events' = <<Event("STARTED", <<id>>)>>
        /\ (last'.op = "log_telemetry" /\ ok) =>
              \A a \in Oracles, t \in Telemetry \cup LedgerTelemetry :
                  log_telemetry(id, t[1], t[2], t[3], a)
                  => events' = <<Event("TEL", <<id, t[1], t[2]>>)>>
        /\ (last'.op = "submit_pod" /\ ok) =>
              \A a \in Addresses, h \in Hashes :
                  submit_pod(id, h, a) => events' = <<Event("DELIVERED", <<id>>)>>
        /\ (last'.op = "evaluate_and_settle" /\ ok) =>
              \A a \in Addresses :
                  evaluate_and_settle(id, a)
                  => events' = <<Event("SETTLED", <<id, store'[id].last_paid>>)>>
        /\ last'.op = "get_contract" =>
              (get_contract(id) => events' = <<>>)
      ]_vars

\* a settlement published its one event, carrying the amount paid
C7_Witness ==
    \E id \in DOMAIN store :
        /\ Succeeded("evaluate_and_settle", id)
        /\ events = <<Event("SETTLED", <<id, store[id].price>>)>>
        /\ store[id].price # 0

(* C8. Telemetry accumulators are monotonic and InTransit-only: in every  *)
(* step total_secs, total_km and computed_cost of every record change only *)
(* when the record is InTransit and the step is a successful               *)
(* log_telemetry on it, none of the three decreases, and log_telemetry on  *)
(* a record that is not InTransit returns BadState and changes nothing.    *)
C8_TelemetryMonotonic ==
    [][ \A id \in DOMAIN store :
          LET old == store[id]
              new == store'[id]
          IN  /\ new.total_secs >= old.total_secs
              /\ new.total_km >= old.total_km
              /\ new.computed_cost >= old.computed_cost
              /\ <<new.total_secs, new.total_km, new.computed_cost>>
                    # <<old.total_secs, old.total_km, old.computed_cost>>
                  => /\ old.status = "InTransit"
                     /\ last' = Ok("log_telemetry", id, 0)
              /\ (On("log_telemetry", id) /\ old.status # "InTransit") =>
                    \A a \in Oracles, t \in Telemetry \cup LedgerTelemetry :
                        log_telemetry(id, t[1], t[2], t[3], a)
                        => Refused("log_telemetry", id, "BadState")
      ]_vars

\* x brought into lo..hi
Clamp(x, lo, hi) == IF x < lo THEN lo ELSE IF x > hi THEN hi ELSE x

(* C9. Saturating accumulation: a log_telemetry(add_secs, add_km,          *)
(* add_cost) on an InTransit record returns Ok and leaves each accumulator *)
(* at its previous value plus the delta, brought into the range of its     *)
(* type: 0..U64_MAX for total_secs, 0..U32_MAX for total_km,               *)
(* I128_MIN..I128_MAX for computed_cost.                                   *)
C9_SaturatingAccumulation ==
    [][ \A id \in DOMAIN store :
          (On("log_telemetry", id) /\ store[id].status = "InTransit") =>
            \A a \in Oracles, t \in Telemetry \cup LedgerTelemetry :
              log_telemetry(id, t[1], t[2], t[3], a) =>
                LET old == store[id]
                    new == store'[id]
                IN  /\ last' = Ok("log_telemetry", id, 0)
                    /\ new.total_secs = Clamp(old.total_secs + t[1], 0, U64_MAX)
                    /\ new.total_km = Clamp(old.total_km + t[2], 0, U32_MAX)
                    /\ new.computed_cost = Clamp(old.computed_cost + t[3], I128_MIN, I128_MAX)
                    /\ new.total_secs \in U64 /\ new.total_km \in U32
                    /\ new.computed_cost \in I128
      ]_vars

\* all three accumulators stand at the top of their ranges after a
\* log_telemetry that added the largest deltas
C9_Witness ==
    \E id \in DOMAIN store :
        /\ Succeeded("log_telemetry", id)
        /\ events = <<Event("TEL", <<id, U32_MAX, U32_MAX>>)>>
        /\ store[id].total_secs = U64_MAX
        /\ store[id].total_km = U32_MAX
        /\ store[id].computed_cost = I128_MAX

(* C10. No double settlement: a successful evaluate_and_settle leaves the  *)
(* record Settled, a Settled record stays Settled, and every               *)
(* evaluate_and_settle on a Settled record returns BadState and leaves the *)
(* record, last_paid included, as it was; no call returns AlreadySettled.  *)
C10_NoDoubleSettlement ==
    [][ /\ last'.err # "AlreadySettled"
        /\ \A id \in DOMAIN store :
              /\ store[id].status = "Settled" => store'[id].status = "Settled"
              /\ (On("evaluate_and_settle", id) /\ last'.err = "None")
                    => store'[id].status = "Settled"
              /\ (On("evaluate_and_settle", id) /\ store[id].status = "Settled") =>
                    \A a \in Addresses :
                        evaluate_and_settle(id, a)
                        => /\ Refused("evaluate_and_settle", id, "BadState")
                           /\ store'[id].last_paid = store[id].last_paid
      ]_vars

\* a second settlement was refused at a timestamp at which it would have
\* paid a different amount
C10_Witness ==
    \E id \in DOMAIN store :
        /\ last = Err("evaluate_and_settle", id, "BadState")
        /\ store[id].status = "Settled"
        /\ store[id].last_paid = store[id].price
        /\ payout(now, store[id]) # store[id].last_paid

(* C11. log_telemetry is role-gated: for every InTransit record there is  *)
(* one address, the authorized oracle, such that log_telemetry by any      *)
(* other address returns Unauthorized and leaves the accumulators as they  *)
(* were.                                                                   *)
C11_TelemetryRoleGated ==
    \A id \in DOMAIN store :
        store[id].status = "InTransit" =>
            \E o \in Addresses :
                \A a \in Addresses \ {o}, t \in Telemetry \cup LedgerTelemetry :
                    ENABLED ( /\ log_telemetry(id, t[1], t[2], t[3], a)
                              /\ Refused("log_telemetry", id, "Unauthorized") )

\* the step is a call of one of the six entry points that write a stored
\* record, made on id
MutatingCallOn(id) ==
    \/ On("accept", id) /\ \E a \in Addresses : accept(id, a)
    \/ On("mark_funded", id) /\ \E a \in Addresses : mark_funded(id, a)
    \/ On("start_trip", id) /\ \E a \in Addresses : start_trip(id, a)
    \/ On("log_telemetry", id) /\
          \E a \in Oracles, t \in Telemetry \cup LedgerTelemetry :
              log_telemetry(id, t[1], t[2], t[3], a)
    \/ On("submit_pod", id) /\ \E a \in Addresses, h \in Hashes : submit_pod(id, h, a)
    \/ On("evaluate_and_settle", id) /\ \E a \in Addresses : evaluate_and_settle(id, a)

(* C13. Settled is terminal and records are never deleted: a stored record *)
(* is stored in the next state too, and get_contract on its id returns Ok; *)
(* once its status is Settled the record is the same in the next state,    *)
(* and every accept, mark_funded, start_trip, log_telemetry, submit_pod    *)
(* and evaluate_and_settle on its id returns an error.                     *)
C13_SettledIsTerminal ==
    [][ \A id \in DOMAIN store :
          /\ id \in DOMAIN store'
          /\ (On("get_contract", id) /\ get_contract(id))
                => last' = Ok("get_contract", id, 0) /\ store' = store
          /\ store[id].status = "Settled" =>
                /\ store'[id] = store[id]
                /\ MutatingCallOn(id) => last'.err # "None"
      ]_vars

\* a Settled record that logged telemetry on its way was read back
C13_Witness ==
    \E id \in DOMAIN store :
        /\ store[id].status = "Settled"
        /\ store[id].total_secs > 0
        /\ Succeeded("get_contract", id)

(* C14. escrow_funded is set once: a mark_funded on a record whose         *)
(* escrow_funded is already true does not return Ok and publishes no       *)
(* FUNDED event, so at most one mark_funded succeeds per record.           *)
C14_FundedOnce ==
    [][ \A id \in DOMAIN store :
          (On("mark_funded", id) /\ store[id].escrow_funded) =>
              \A a \in Addresses :
                  mark_funded(id, a) => last'.err # "None" /\ events' = <<>>
      ]_vars

(* C15. escrow_funded is false in a record that create_contract has just   *)
(* stored; it turns from false to true only in a step that is a successful *)
(* mark_funded by the record's shipper on a record that is Active before   *)
(* and after; once true it is true in the next state.                      *)
C15_EscrowFundedLatch ==
    [][ /\ \A id \in (DOMAIN store') \ (DOMAIN store) : ~store'[id].escrow_funded
        /\ \A id \in DOMAIN store :
              /\ store[id].escrow_funded => store'[id].escrow_funded
              /\ (~store[id].escrow_funded /\ store'[id].escrow_funded) =>
                    /\ store[id].status = "Active"
                    /\ store'[id].status = "Active"
                    /\ last' = Ok("mark_funded", id, 0)
                    /\ mark_funded(id, store[id].shipper)
                    /\ \A a \in Addresses \ {store[id].shipper} : ~mark_funded(id, a)
      ]_vars

\* a record funded while Active still has escrow_funded after settlement
C15_Witness ==
    \E id \in DOMAIN store :
        /\ store[id].status = "Settled"
        /\ store[id].escrow_funded
        /\ Succeeded("evaluate_and_settle", id)
        /\ store[id].shipper # store[id].carrier

(* C16. doc_hash changes only in the step that is a successful            *)
(* submit_pod and moves the record from InTransit to Delivered; after a    *)
(* successful submit_pod doc_hash is the submitted pod_hash; from          *)
(* Delivered on it does not change any more, so it changes at most once.   *)
C16_DocHashOnDelivery ==
    [][ \A id \in DOMAIN store :
          /\ store'[id].doc_hash # store[id].doc_hash =>
                /\ store[id].status = "InTransit"
                /\ store'[id].status = "Delivered"
                /\ last' = Ok("submit_pod", id, 0)
          /\ store[id].status \in {"Delivered", "Settled"} =>
                store'[id].doc_hash = store[id].doc_hash
          /\ (On("submit_pod", id) /\ last'.err = "None") =>
                \A a \in Addresses, h \in Hashes :
                    submit_pod(id, h, a) => store'[id].doc_hash = h
      ]_vars

\* the document digest given at creation was replaced by the POD digest
C16_Witness ==
    \E id \in DOMAIN store :
        /\ Succeeded("submit_pod", id)
        /\ store[id].status = "Delivered"
        /\ store[id].doc_hash = "h1"

(* C17. last_paid is zero while the record is not Settled; it changes only *)
(* in the step that moves the record from Delivered to Settled, where it   *)
(* becomes the amount evaluate_and_settle returns; a Settled record keeps  *)
(* its last_paid.                                                          *)
C17_LastPaidOnce ==
    [][ \A id \in DOMAIN store' :
          /\ store'[id].status # "Settled" => store'[id].last_paid = 0
          /\ id \in DOMAIN store =>
                /\ store'[id].last_paid # store[id].last_paid =>
                      store[id].status = "Delivered" /\ store'[id].status = "Settled"
                /\ (store[id].status = "Delivered" /\ store'[id].status = "Settled") =>
                      /\ last' = Ok("evaluate_and_settle", id, store'[id].last_paid)
                      /\ store'[id].last_paid = payout(now, store[id])
                /\ store[id].status = "Settled" =>
                      store'[id].last_paid = store[id].last_paid
      ]_vars

\* a settled amount outlived a later call on the record
C17_Witness ==
    \E id \in DOMAIN store :
        /\ store[id].status = "Settled"
        /\ store[id].last_paid # 0
        /\ last = Err("submit_pod", id, "BadState")

\* the fields of a record that are given at creation
Immutable(fc) ==
    <<fc.id, fc.shipper, fc.carrier, fc.origin, fc.destination, fc.token,
      fc.price, fc.deadline_unix, fc.created_at>>

(* C18. Immutable fields: every stored record keeps its id, shipper,       *)
(* carrier, origin, destination, token, price, deadline_unix and           *)
(* created_at in every step, and a step changes no record other than the   *)
(* one its call was made on.                                               *)
C18_ImmutableFields ==
    [][ \A id \in DOMAIN store :
          /\ id \in DOMAIN store'
          /\ Immutable(store'[id]) = Immutable(store[id])
          /\ store'[id] # store[id] => last'.id = id /\ last'.err = "None"
      ]_vars

\* one contract went all the way while another stayed a Draft
C18_Witness ==
    /\ DOMAIN store = {1, 2}
    /\ store[2].status = "Settled"
    /\ store[1].status = "Draft"
    /\ Succeeded("evaluate_and_settle", 2)

(* C19. Every stored record that is InTransit, Delivered or Settled has    *)
(* escrow_funded true, and the only entry point that returns               *)
(* EscrowNotFunded is start_trip.                                          *)
C19_FundedBeyondActive ==
    /\ \A id \in DOMAIN store :
          store[id].status \in {"InTransit", "Delivered", "Settled"}
          => store[id].escrow_funded
    /\ last.err = "EscrowNotFunded" => last.op = "start_trip"

\* evaluate_and_settle got past its escrow check
C19_Witness ==
    \E id \in DOMAIN store :
        /\ Succeeded("evaluate_and_settle", id)
        /\ store[id].escrow_funded
        /\ store[id].last_paid = payout(now, store[id])

\* the caller entry point op asks for on record fc
RequiredCaller(op, fc, a) ==
    CASE op = "accept" -> a = fc.carrier
      [] op = "mark_funded" -> a = fc.shipper
      [] op \in {"start_trip", "submit_pod"} -> a \in {fc.shipper, fc.carrier}
      [] OTHER -> TRUE

\* the status entry point op asks for
RequiredStatus(op, st) ==
    CASE op = "accept" -> st = "Draft"
      [] op \in {"mark_funded", "start_trip"} -> st = "Active"
      [] op \in {"log_telemetry", "submit_pod"} -> st = "InTransit"
      [] op = "evaluate_and_settle" -> st = "Delivered"
      [] OTHER -> TRUE

\* the first failing check of op(id, .., a) in the order NotFound,
\* Unauthorized, BadState, EscrowNotFunded; "None" when none fails
FirstFailure(op, id, a) ==
    IF id \notin DOMAIN store THEN "NotFound"
    ELSE IF ~RequiredCaller(op, store[id], a) THEN "Unauthorized"
    ELSE IF ~RequiredStatus(op, store[id].status) THEN "BadState"
    ELSE IF op \in {"start_trip", "evaluate_and_settle"} /\ ~store[id].escrow_funded
        THEN "EscrowNotFunded"
    ELSE "None"

(* C20. Error precedence: every call returns the first failing check in    *)
(* the order NotFound, Unauthorized, BadState, EscrowNotFunded, and Ok     *)
(* when no check fails: NotFound on an id with no record whatever the      *)
(* caller, Unauthorized for a wrong caller whatever the status, BadState   *)
(* before EscrowNotFunded.                                                 *)
C20_ErrorPrecedence ==
    [][ LET id == last'.id
            \* the step is no call op(id, .., a), or it returned FirstFailure
            Answers(op, a, IsCall) == last'.err = FirstFailure(op, id, a) \/ ~IsCall
        IN
        /\ last'.op = "accept" =>
              \A a \in Addresses : Answers("accept", a, accept(id, a))
        /\ last'.op = "mark_funded" =>
              \A a \in Addresses : Answers("mark_funded", a, mark_funded(id, a))
        /\ last'.op = "start_trip" =>
              \A a \in Addresses : Answers("start_trip", a, start_trip(id, a))
        /\ last'.op = "log_telemetry" =>
              \A a \in Oracles :
                  Answers("log_telemetry", a,
                          \E t \in Telemetry \cup LedgerTelemetry :
                              log_telemetry(id, t[1], t[2], t[3], a))
        /\ last'.op = "submit_pod" =>
              \A a \in Addresses :
                  Answers("submit_pod", a, \E h \in Hashes : submit_pod(id, h, a))
        /\ last'.op = "evaluate_and_settle" =>
              \A a \in Addresses :
                  Answers("evaluate_and_settle", a, evaluate_and_settle(id, a))
        /\ last'.op = "get_contract" =>
              \A a \in Addresses : Answers("get_contract", a, get_contract(id))
      ]_vars

\* start_trip on an unfunded Draft: the status check answered, not the escrow check
C20_Witness ==
    \E id \in DOMAIN store :
        /\ last = Err("start_trip", id, "BadState")
        /\ store[id].status = "Draft"
        /\ ~store[id].escrow_funded

====
